---- MODULE Spec2Model ----
(***************************************************************************)
(* scran.js. Four specifications over one set of variables:                *)
(*   Spec         js/permute.js: one call of permuteVector,                *)
(*                unpermuteVector or updatePermutation, modelled over a    *)
(*                small heap of JavaScript arrays so that aliasing         *)
(*                (slice() against a plain reference, a view of the        *)
(*                matrix's storage against a copy) is part of the model;   *)
(*   SpecConc     the same functions, several calls in progress at once,   *)
(*                advancing one array element at a time;                   *)
(*   SpecFree     js/findNearestNeighbors.js: free() of the two wrappers;  *)
(*   SpecMarkers  src/score_markers.cpp: score_markers and its result.     *)
(*                                                                         *)
(* A JavaScript array a is the sequence of its elements: a[i] in the       *)
(* source is Load(a, i) here, i counted from 0.                            *)
(***************************************************************************)
EXTENDS Integers, Sequences, FiniteSets, TLC

\* Longest array drawn as an input.
MaxLen == 3

\* The values a values array is filled with.
Vals == {10, 20, 30}

\* JavaScript's undefined: what reading past the end of an array (or a hole) yields.
Undef == -1

\* The scenarios of the documentation: n = 4, rows stored in the order 2, 0, 3, 1.
ScenarioP == <<2, 0, 3, 1>>
ScenarioV == <<10, 20, 30, 40>>
ScenarioW == <<20, 40, 10, 30>>
ScenarioOldP == <<0, 1, 2, 3>>
ScenarioNewP == <<1, 0, 2, 3>>

\* Index arrays handed in as a permutation: every array of entries below MaxLen,
\* bijections and malformed ones alike, of every length up to MaxLen.
IndexArrays == UNION {[1..n -> 0..(MaxLen - 1)] : n \in 0..MaxLen}

ValueArrays == UNION {[1..n -> Vals] : n \in 0..MaxLen}

LayeredInputs == IndexArrays \cup {ScenarioP, ScenarioOldP, ScenarioNewP}
ValuesInputs == ValueArrays \cup {ScenarioV, ScenarioW}
OldInputs == IndexArrays \cup {ScenarioOldP, ScenarioNewP}

VARIABLES
    op,         \* the function called last ("init" before any call)
    isMatrix,   \* whether `layered` was a LayeredSparseMatrix rather than an array
    pre,        \* the heap as the caller passed it: reference -> contents
    heap,       \* the heap when the call ended
    outcome,    \* "return" or "throw"
    error,      \* the string thrown ("" when nothing was thrown)
    ret,        \* the reference returned, "null", or "none" when the call threw
    calls,      \* the methods of the matrix the call invoked, in order
    writes      \* the element writes the call made, in order: <<reference, index>>

permVars == <<op, isMatrix, pre, heap, outcome, error, ret, calls, writes>>

\* src/score_markers.cpp: one call of score_markers, or one construction of an
\* empty ScoreMarkers_Results, and the queries made of the result.
VARIABLES
    smArgs,     \* the arguments: compute_auc, compute_med, compute_max, ...
    smEngine,   \* the scran::ScoreMarkers object score_markers configured
    smStore,    \* the result: which summaries it holds, per effect size
    smQuery     \* the last query of the result and how it ended

markerVars == <<smArgs, smEngine, smStore, smQuery>>

\* js/findNearestNeighbors.js: the wrappers of objects on the Wasm heap.
VARIABLES
    wrappers,   \* wrapper -> its class, its handle field, the free() calls made of it
    natives,    \* native object -> the delete() calls it received
    lastCall    \* the last method called on a wrapper and how it ended

freeVars == <<wrappers, natives, lastCall>>

\* js/permute.js again, with several calls in progress at once: each call advances
\* one array element at a time, the calls sharing the arrays they were given.
VARIABLES
    inputs,       \* the arrays every call is given: reference -> contents
    shared,       \* the heap all calls work on
    inv,          \* call -> its function, position and containers
    accesses,     \* which call read which array, which call wrote which array
    interleaved   \* whether some call took a step while another was in progress

concVars == <<inputs, shared, inv, accesses, interleaved>>

vars == <<permVars, markerVars, freeVars, concVars>>

\* The state of the interleaved calls while the calls are looked at one by one.
ConcIdle ==
    /\ inputs = [r \in {} |-> <<>>]
    /\ shared = [r \in {} |-> <<>>]
    /\ inv = <<>>
    /\ accesses = [reads |-> {}, writes |-> {}]
    /\ interleaved = FALSE

\* The state of findNearestNeighbors.js while another file is looked at.
FreeIdle ==
    /\ wrappers = <<>>
    /\ natives = <<>>
    /\ lastCall = [called |-> FALSE]

\* The state of score_markers.cpp while the functions of permute.js are looked at.
MarkersIdle ==
    /\ smArgs = [idle |-> TRUE]
    /\ smEngine = [configured |-> FALSE]
    /\ smStore = [built |-> FALSE]
    /\ smQuery = [asked |-> FALSE]

\* The state of permute.js while another file is looked at.
PermIdle ==
    /\ op = "idle"
    /\ isMatrix = FALSE
    /\ pre = [r \in {} |-> <<>>]
    /\ heap = [r \in {} |-> <<>>]
    /\ outcome = "return"
    /\ error = ""
    /\ ret = "none"
    /\ calls = <<>>
    /\ writes = <<>>

------------------------------------------------------------------------------
\* JavaScript arrays

\* a[i] of a plain Array or TypedArray: undefined past the end.
Load(a, i) == IF i >= 0 /\ i < Len(a) THEN a[i + 1] ELSE Undef

\* a[x] = v of a plain Array: a write past the end lengthens the array, leaving holes.
Store(a, x, v) ==
    IF x < Len(a)
    THEN [a EXCEPT ![x + 1] = v]
    ELSE a \o [k \in 1..(x - Len(a)) |-> Undef] \o <<v>>

\* a[x] = v of a TypedArray (an Int32Array): its length is fixed, a write past the
\* end is dropped.
TypedStore(a, x, v) == IF x < Len(a) THEN [a EXCEPT ![x + 1] = v] ELSE a

\* A slice() that leaves out the copy: the result is the source array itself.
SliceAlias(h, src, fresh) == [heap |-> h, ref |-> src]

\* src.slice(): a fresh container `fresh` holding the elements of src.
Slice(h, src, fresh) == [heap |-> (fresh :> h[src]) @@ h, ref |-> fresh]

------------------------------------------------------------------------------
\* The collaborator: LayeredSparseMatrix (js/SparseMatrix.js). Reference "layered"
\* stands for the storage holding its permutation.

\* layered.permutation({ copy }): a view of the storage, or an owned copy of it.
MatrixPermutation(h, copy) ==
    IF copy
    THEN [heap |-> ("permcopy" :> h["layered"]) @@ h, ref |-> "permcopy",
          call |-> [method |-> "permutation", copy |-> TRUE]]
    ELSE [heap |-> h, ref |-> "layered",
          call |-> [method |-> "permutation", copy |-> FALSE]]

\* layered.numberOfRows()
MatrixNumberOfRows(h) == Len(h["layered"])

NumberOfRowsCall == [method |-> "numberOfRows", copy |-> FALSE]

\* permuteVector / unpermuteVector asking for an owned copy.
GetPermCopying(h, matrix) ==
    IF matrix
    THEN LET p == MatrixPermutation(h, TRUE)
         IN  [heap |-> p.heap, ref |-> p.ref, calls |-> <<p.call>>]
    ELSE [heap |-> h, ref |-> "layered", calls |-> <<>>]

\* if (layered instanceof LayeredSparseMatrix) perm = layered.permutation({ copy: false });
\* else perm = layered;
GetPerm(h, matrix) ==
    IF matrix
    THEN LET p == MatrixPermutation(h, FALSE)
         IN  [heap |-> p.heap, ref |-> p.ref, calls |-> <<p.call>>]
    ELSE [heap |-> h, ref |-> "layered", calls |-> <<>>]

------------------------------------------------------------------------------
\* permuteVector

\* The callback with the two indices exchanged.
PermuteCallbackSwapped(h, copy, x, i) ==
    [h EXCEPT ![copy] = Store(@, i, Load(h["values"], x))]

\* The callback counting the elements of values from 1: copy[x] = values[i + 1].
PermuteCallbackOneBased(h, copy, x, i) ==
    [h EXCEPT ![copy] = Store(@, x, Load(h["values"], i + 1))]

\* (x, i) => { copy[x] = values[i]; }
PermuteCallback(h, copy, x, i) ==
    [h EXCEPT ![copy] = Store(@, x, Load(h["values"], i))]

\* A loop that stops one element early: the last entry of perm is never visited.
RECURSIVE PermuteForEachSkipsLast(_, _, _, _, _, _)
PermuteForEachSkipsLast(h, perm, copy, n, i, w) ==
    IF i >= n - 1
    THEN [heap |-> h, writes |-> w]
    ELSE LET x == Load(h[perm], i)
         IN  PermuteForEachSkipsLast(PermuteCallback(h, copy, x, i), perm, copy, n,
                                     i + 1, Append(w, <<copy, x>>))

\* perm.forEach((x, i) => { copy[x] = values[i]; }), from index i on. forEach fixes
\* the number of iterations when it starts (n) and reads each element when it is
\* visited.
RECURSIVE PermuteForEach(_, _, _, _, _, _)
PermuteForEach(h, perm, copy, n, i, w) ==
    IF i >= n
    THEN [heap |-> h, writes |-> w]
    ELSE LET x == Load(h[perm], i)
         IN  PermuteForEach(PermuteCallback(h, copy, x, i), perm, copy, n, i + 1,
                            Append(w, <<copy, x>>))

permuteVector(h, matrix) ==
    LET s == Slice(h, "values", "copy")
        p == GetPerm(s.heap, matrix)
        r == PermuteForEach(p.heap, p.ref, s.ref, Len(p.heap[p.ref]), 0, <<>>)
    IN  [heap |-> r.heap, outcome |-> "return", error |-> "", ret |-> s.ref,
         calls |-> p.calls, writes |-> r.writes]

------------------------------------------------------------------------------
\* unpermuteVector

\* The callback with the two indices exchanged.
UnpermuteCallbackSwapped(h, copy, x, i) ==
    [h EXCEPT ![copy] = Store(@, x, Load(h["values"], i))]

\* (x, i) => { copy[i] = values[x]; }
UnpermuteCallback(h, copy, x, i) ==
    [h EXCEPT ![copy] = Store(@, i, Load(h["values"], x))]

\* perm.forEach((x, i) => { copy[i] = values[x]; }), from index i on.
RECURSIVE UnpermuteForEach(_, _, _, _, _, _)
UnpermuteForEach(h, perm, copy, n, i, w) ==
    IF i >= n
    THEN [heap |-> h, writes |-> w]
    ELSE LET x == Load(h[perm], i)
         IN  UnpermuteForEach(UnpermuteCallback(h, copy, x, i), perm, copy, n, i + 1,
                              Append(w, <<copy, i>>))

unpermuteVector(h, matrix) ==
    LET s == Slice(h, "values", "copy")
        p == GetPerm(s.heap, matrix)
        r == UnpermuteForEach(p.heap, p.ref, s.ref, Len(p.heap[p.ref]), 0, <<>>)
    IN  [heap |-> r.heap, outcome |-> "return", error |-> "", ret |-> s.ref,
         calls |-> p.calls, writes |-> r.writes]

------------------------------------------------------------------------------
\* updatePermutation

RowsMismatch == "number of rows in 'layered' should be the same as length of 'old'"
LengthMismatch == "length of 'layered' should be the same as length of 'old'"

\* The length the new permutation is taken to have: layered.numberOfRows() of a
\* matrix, layered.length of an array.
NewLength(h, matrix) == IF matrix THEN MatrixNumberOfRows(h) ELSE Len(h["layered"])

\* A length test that lets every pair of lengths through.
LengthsDifferNever(h, matrix) == FALSE

\* old.length != layered.numberOfRows()   /   old.length != layered.length
LengthsDiffer(h, matrix) == Len(h["old"]) # NewLength(h, matrix)

\* A comparison that looks at the first entry only.
SameFirstOnly(h, perm, n, index) ==
    index >= n \/ Load(h["old"], index) = Load(h[perm], index)

\* for (const [index, val] of spawnPerm().entries())
\*     if (old[index] != val) { same = false; break; }
\* from `index` on: TRUE when the loop ends with same still true.
RECURSIVE Same(_, _, _, _)
Same(h, perm, n, index) ==
    IF index >= n
    THEN TRUE
    ELSE IF Load(h["old"], index) # Load(h[perm], index)
         THEN FALSE
         ELSE Same(h, perm, n, index + 1)

\* The callback with old and new exchanged: output[old[i]] = x.
UpdateCallbackInverse(h, output, x, i) ==
    [h EXCEPT ![output] = TypedStore(@, Load(h["old"], i), x)]

\* (x, i) => { output[x] = old[i]; }   (output is old.slice(), a TypedArray)
UpdateCallback(h, output, x, i) ==
    [h EXCEPT ![output] = TypedStore(@, x, Load(h["old"], i))]

\* A loop that stops one element early: the last entry of the new permutation is
\* never visited.
RECURSIVE UpdateForEachSkipsLast(_, _, _, _, _, _)
UpdateForEachSkipsLast(h, perm, output, n, i, w) ==
    IF i >= n - 1
    THEN [heap |-> h, writes |-> w]
    ELSE LET x == Load(h[perm], i)
         IN  UpdateForEachSkipsLast(UpdateCallback(h, output, x, i), perm, output, n,
                                    i + 1, Append(w, <<output, x>>))

\* spawnPerm().forEach((x, i) => { output[x] = old[i]; }), from index i on.
RECURSIVE UpdateForEach(_, _, _, _, _, _)
UpdateForEach(h, perm, output, n, i, w) ==
    IF i >= n
    THEN [heap |-> h, writes |-> w]
    ELSE LET x == Load(h[perm], i)
         IN  UpdateForEach(UpdateCallback(h, output, x, i), perm, output, n, i + 1,
                           Append(w, <<output, x>>))

updatePermutation(h, matrix) ==
    LET first == IF matrix THEN <<NumberOfRowsCall>> ELSE <<>>
    IN  IF LengthsDiffer(h, matrix)
        THEN [heap |-> h, outcome |-> "throw",
              error |-> IF matrix THEN RowsMismatch ELSE LengthMismatch,
              ret |-> "none", calls |-> first, writes |-> <<>>]
        ELSE LET p1 == GetPerm(h, matrix)     \* spawnPerm(), for the comparison
             IN  IF Same(p1.heap, p1.ref, Len(p1.heap[p1.ref]), 0)
                 THEN [heap |-> p1.heap, outcome |-> "return", error |-> "",
                       ret |-> "null", calls |-> first \o p1.calls, writes |-> <<>>]
                 ELSE LET s == Slice(p1.heap, "old", "output")
                          p2 == GetPerm(s.heap, matrix)     \* spawnPerm() again
                          r == UpdateForEach(p2.heap, p2.ref, s.ref,
                                             Len(p2.heap[p2.ref]), 0, <<>>)
                      IN  [heap |-> r.heap, outcome |-> "return", error |-> "",
                           ret |-> s.ref, calls |-> first \o p1.calls \o p2.calls,
                           writes |-> r.writes]

------------------------------------------------------------------------------
\* The state machine. A state before the call holds what the call will be given as
\* `layered`; each action is one call, its second argument of the caller's choosing.

Init ==
    /\ op = "init"
    /\ isMatrix \in BOOLEAN
    /\ \E P \in LayeredInputs : pre = [r \in {"layered"} |-> P]
    /\ heap = pre
    /\ outcome = "return"
    /\ error = ""
    /\ ret = "none"
    /\ calls = <<>>
    /\ writes = <<>>
    /\ MarkersIdle
    /\ FreeIdle
    /\ ConcIdle

Finish(name, h, res) ==
    /\ op' = name
    /\ pre' = h
    /\ heap' = res.heap
    /\ outcome' = res.outcome
    /\ error' = res.error
    /\ ret' = res.ret
    /\ calls' = res.calls
    /\ writes' = res.writes
    /\ UNCHANGED <<isMatrix, markerVars, freeVars, concVars>>

CallPermuteVector ==
    /\ op = "init"
    /\ \E V \in ValuesInputs :
        LET h == ("values" :> V) @@ pre
        IN  Finish("permuteVector", h, permuteVector(h, isMatrix))

CallUnpermuteVector ==
    /\ op = "init"
    /\ \E W \in ValuesInputs :
        LET h == ("values" :> W) @@ pre
        IN  Finish("unpermuteVector", h, unpermuteVector(h, isMatrix))

CallUpdatePermutation ==
    /\ op = "init"
    /\ \E old \in OldInputs :
        LET h == ("old" :> old) @@ pre
        IN  Finish("updatePermutation", h, updatePermutation(h, isMatrix))

Next ==
    \/ CallPermuteVector
    \/ CallUnpermuteVector
    \/ CallUpdatePermutation

Spec == Init /\ [][Next]_vars

------------------------------------------------------------------------------
\* Calls of permute.js in progress at once

\* Number of calls in progress at once, and the longest array they are given.
NumInv == 2
ConcLen == 2

\* The permutations of [0, n), n up to ConcLen.
ConcPermutations ==
    {a \in UNION {[1..n -> 0..(n - 1)] : n \in 0..ConcLen} :
        {a[k] : k \in 1..Len(a)} = 0..(Len(a) - 1)}

\* Values arrays of different values, one per length.
ConcValues(n) == [k \in 1..n |-> 10 * k]

ContainerNames == <<"copy1", "copy2", "copy3", "copy4">>

\* One container for all calls: a buffer kept between calls.
SharedRef(id) == ContainerNames[1]

\* let copy = values.slice(); / let output = old.slice(); the container is local
\* to the call, a new one in each.
OwnRef(id) == ContainerNames[id]

NotStarted ==
    [fn |-> "none", phase |-> "idle", i |-> 0, n |-> 0, perm |-> "none",
     out |-> "none", outcome |-> "none"]

InProgress(id) == inv[id].phase \in {"compare", "loop"}

\* The call's step is taken while another call is under way.
Overlaps(id) == \E other \in DOMAIN inv : other # id /\ InProgress(other)

Reads(id, refs) == [accesses EXCEPT !.reads = @ \cup {<<id, r>> : r \in refs}]

ConcInit ==
    /\ PermIdle
    /\ MarkersIdle
    /\ FreeIdle
    /\ \E P \in ConcPermutations, O \in ConcPermutations :
          inputs = [r \in {"layered", "values", "old"} |->
                       CASE r = "layered" -> P
                         [] r = "values" -> ConcValues(Len(P))
                         [] r = "old" -> O]
    /\ shared = inputs
    /\ inv = [id \in 1..NumInv |-> NotStarted]
    /\ accesses = [reads |-> {}, writes |-> {}]
    /\ interleaved = FALSE

\* permuteVector / unpermuteVector up to the loop: the slice and the choice of perm.
StartMapper(id, fn) ==
    /\ inv[id].phase = "idle"
    /\ LET s == Slice(shared, "values", OwnRef(id))
           p == GetPerm(s.heap, FALSE)
           n == Len(p.heap[p.ref])
       IN  /\ shared' = p.heap
           /\ inv' = [inv EXCEPT ![id] =
                        [fn |-> fn, phase |-> IF n = 0 THEN "done" ELSE "loop",
                         i |-> 0, n |-> n, perm |-> p.ref, out |-> s.ref,
                         outcome |-> "return"]]
           /\ accesses' = Reads(id, {"values", p.ref})
    /\ interleaved' = (interleaved \/ Overlaps(id))
    /\ UNCHANGED <<inputs, permVars, markerVars, freeVars>>

\* updatePermutation up to its first loop: the length check and spawnPerm().
StartUpdate(id) ==
    /\ inv[id].phase = "idle"
    /\ IF LengthsDiffer(shared, FALSE)
       THEN /\ inv' = [inv EXCEPT ![id] =
                         [NotStarted EXCEPT !.fn = "updatePermutation",
                                            !.phase = "done", !.outcome = "throw"]]
            /\ accesses' = Reads(id, {"old", "layered"})
            /\ UNCHANGED shared
       ELSE LET p == GetPerm(shared, FALSE)
                n == Len(p.heap[p.ref])
            IN  /\ shared' = p.heap
                /\ inv' = [inv EXCEPT ![id] =
                             [fn |-> "updatePermutation",
                              phase |-> IF n = 0 THEN "done" ELSE "compare",
                              i |-> 0, n |-> n, perm |-> p.ref,
                              out |-> IF n = 0 THEN "null" ELSE "none",
                              outcome |-> IF n = 0 THEN "return" ELSE "none"]]
                /\ accesses' = Reads(id, {"old", p.ref})
    /\ interleaved' = (interleaved \/ Overlaps(id))
    /\ UNCHANGED <<inputs, permVars, markerVars, freeVars>>

\* if (old[index] != val)
Differs(h, perm, index) == Load(h["old"], index) # Load(h[perm], index)

\* One round of the comparison loop of updatePermutation. On a difference the loop
\* is left, old is sliced and spawnPerm() called again; after the last element
\* without one, null is returned.
CompareStep(id) ==
    /\ inv[id].phase = "compare"
    /\ LET c == inv[id]
       IN  IF Differs(shared, c.perm, c.i)
           THEN LET s == Slice(shared, "old", OwnRef(id))
                    p == GetPerm(s.heap, FALSE)
                IN  /\ shared' = p.heap
                    /\ inv' = [inv EXCEPT ![id] =
                                 [c EXCEPT !.phase = "loop", !.i = 0,
                                           !.n = Len(p.heap[p.ref]),
                                           !.perm = p.ref, !.out = s.ref]]
           ELSE /\ UNCHANGED shared
                /\ inv' = [inv EXCEPT ![id] =
                             IF c.i + 1 >= c.n
                             THEN [c EXCEPT !.phase = "done", !.out = "null",
                                            !.outcome = "return"]
                             ELSE [c EXCEPT !.i = c.i + 1]]
    /\ accesses' = Reads(id, {"old", inv[id].perm})
    /\ interleaved' = (interleaved \/ Overlaps(id))
    /\ UNCHANGED <<inputs, permVars, markerVars, freeVars>>

\* The callback of the call's function.
Callback(fn, h, out, x, i) ==
    CASE fn = "permuteVector" -> PermuteCallback(h, out, x, i)
      [] fn = "unpermuteVector" -> UnpermuteCallback(h, out, x, i)
      [] fn = "updatePermutation" -> UpdateCallback(h, out, x, i)

\* One round of forEach: the callback on element i of perm. The call returns its
\* container after the last one.
LoopStep(id) ==
    /\ inv[id].phase = "loop"
    /\ LET c == inv[id]
           x == Load(shared[c.perm], c.i)
       IN  /\ shared' = Callback(c.fn, shared, c.out, x, c.i)
           /\ inv' = [inv EXCEPT ![id] =
                        IF c.i + 1 >= c.n
                        THEN [c EXCEPT !.phase = "done", !.i = c.i + 1,
                                       !.outcome = "return"]
                        ELSE [c EXCEPT !.i = c.i + 1]]
           /\ accesses' =
                [reads |-> accesses.reads \cup
                     {<<id, c.perm>>,
                      <<id, IF c.fn = "updatePermutation" THEN "old" ELSE "values">>},
                 writes |-> accesses.writes \cup {<<id, c.out>>}]
    /\ interleaved' = (interleaved \/ Overlaps(id))
    /\ UNCHANGED <<inputs, permVars, markerVars, freeVars>>

ConcNext ==
    \/ \E id \in 1..NumInv : StartMapper(id, "permuteVector")
    \/ \E id \in 1..NumInv : StartMapper(id, "unpermuteVector")
    \/ \E id \in 1..NumInv : StartUpdate(id)
    \/ \E id \in 1..NumInv : CompareStep(id)
    \/ \E id \in 1..NumInv : LoopStep(id)

SpecConc == ConcInit /\ [][ConcNext]_vars

------------------------------------------------------------------------------
\* src/score_markers.cpp

\* scran::differential_analysis: the summaries of the pairwise effect sizes.
Summaries == {"MIN", "MEAN", "MEDIAN", "MAX", "MIN_RANK"}
Effects == {"cohen", "auc", "lfc", "delta_detected"}

\* Largest nthreads drawn as an input.
MaxThreads == 2

\* ScoreMarkers_Results::default_choice(median, max)
default_choice(median, max) ==
    [s \in Summaries |->
        CASE s = "MEDIAN" -> median
          [] s = "MAX" -> max
          [] OTHER -> TRUE]

\* scran::ScoreMarkers::Defaults::compute_no_summaries()
compute_no_summaries == [s \in Summaries |-> FALSE]

\* scran::ScoreMarkers mrk;
\* mrk.set_summary_max(compute_med);
\* mrk.set_summary_median(compute_max);
\* mrk.set_num_threads(nthreads);
\* mrk.set_threshold(lfc_threshold);
\* mrk.set_compute_auc(compute_auc);
Configure(a) ==
    [configured |-> TRUE,
     summary_max |-> a.compute_med,
     summary_median |-> a.compute_max,
     num_threads |-> a.nthreads,
     threshold |-> a.lfc_threshold,
     compute_auc |-> a.compute_auc]

\* mrk.run_blocked(...): the summaries the engine computes for each effect size.
\* MIN, MEAN and MIN_RANK are computed always, MEDIAN and MAX as configured; the
\* AUCs are left out altogether unless compute_auc is set.
run_blocked(mrk) ==
    [built |-> TRUE,
     summaries |-> [e \in Effects |->
        IF e = "auc" /\ ~mrk.compute_auc
        THEN compute_no_summaries
        ELSE default_choice(mrk.summary_median, mrk.summary_max)]]

\* ScoreMarkers_Results(ngenes, ngroups, nblocks, compute_auc, compute_median,
\* compute_maximum): an empty result with room for the chosen summaries.
ConstructResults(a) ==
    [built |-> TRUE,
     summaries |-> [e \in Effects |->
        IF e = "auc" /\ ~a.compute_auc
        THEN compute_no_summaries
        ELSE default_choice(a.compute_med, a.compute_max)]]

\* cohen(g, s), auc(g, s), lfc(g, s), delta_detected(g, s): a view of the summary,
\* or a runtime_error when the summary was not computed.
Query(store, e, s) ==
    [asked |-> TRUE, effect |-> e, summary |-> s,
     outcome |-> IF store.summaries[e][s] THEN "return" ELSE "throw"]

MarkersInit ==
    /\ PermIdle
    /\ FreeIdle
    /\ ConcIdle
    /\ \E auc \in BOOLEAN, med \in BOOLEAN, max \in BOOLEAN, blocks \in BOOLEAN,
          threads \in 1..MaxThreads, threshold \in {0, 1} :
          smArgs = [idle |-> FALSE, compute_auc |-> auc, compute_med |-> med,
                    compute_max |-> max, use_blocks |-> blocks,
                    nthreads |-> threads, lfc_threshold |-> threshold]
    /\ smEngine = [configured |-> FALSE]
    /\ smStore = [built |-> FALSE]
    /\ smQuery = [asked |-> FALSE]

\* score_markers(mat, groups, use_blocks, blocks, lfc_threshold, compute_auc,
\* compute_med, compute_max, nthreads)
CallScoreMarkers ==
    /\ ~smStore.built
    /\ smEngine' = Configure(smArgs)
    /\ smStore' = run_blocked(smEngine')
    /\ UNCHANGED <<smArgs, smQuery, permVars, freeVars, concVars>>

\* new ScoreMarkers_Results(ngenes, ngroups, nblocks, compute_auc, compute_median,
\* compute_maximum)
CallConstructResults ==
    /\ ~smStore.built
    /\ smStore' = ConstructResults(smArgs)
    /\ UNCHANGED <<smArgs, smEngine, smQuery, permVars, freeVars, concVars>>

\* One of the four accessors called on the result.
CallQuery ==
    /\ smStore.built
    /\ ~smQuery.asked
    /\ \E e \in Effects, s \in Summaries : smQuery' = Query(smStore, e, s)
    /\ UNCHANGED <<smArgs, smEngine, smStore, permVars, freeVars, concVars>>

MarkersNext ==
    \/ CallScoreMarkers
    \/ CallConstructResults
    \/ CallQuery

SpecMarkers == MarkersInit /\ [][MarkersNext]_vars

------------------------------------------------------------------------------
\* js/findNearestNeighbors.js: BuildNeighborSearchIndexResults and
\* FindNearestNeighborsResults

\* Number of wrappers alive at once, and free() calls made of each.
NumWrappers == 2
MaxFrees == 3

Classes == {"BuildNeighborSearchIndexResults", "FindNearestNeighborsResults"}

\* null, as the value of a wrapper's handle field; natives are numbered from 1.
NullHandle == 0

\* raw.delete() of an embind handle: the one delete() releases the object, a
\* delete() of a released object throws.
NativeDelete(deletes) ==
    [deletes |-> deletes + 1, outcome |-> IF deletes = 0 THEN "return" ELSE "throw"]

\* A free() that deletes the native and keeps the handle.
FreeKeepsHandle(field, nat) ==
    IF field # NullHandle
    THEN LET d == NativeDelete(nat[field])
         IN  [field |-> field, natives |-> [nat EXCEPT ![field] = d.deletes],
              outcome |-> d.outcome]
    ELSE [field |-> field, natives |-> nat, outcome |-> "return"]

\* BuildNeighborSearchIndexResults.free():
\*     if (this.index !== null) { this.index.delete(); this.index = null; } return;
IndexFree(field, nat) ==
    IF field # NullHandle
    THEN LET d == NativeDelete(nat[field])
         IN  IF d.outcome = "throw"
             THEN [field |-> field, natives |-> [nat EXCEPT ![field] = d.deletes],
                   outcome |-> "throw"]
             ELSE [field |-> NullHandle,
                   natives |-> [nat EXCEPT ![field] = d.deletes],
                   outcome |-> "return"]
    ELSE [field |-> field, natives |-> nat, outcome |-> "return"]

\* FindNearestNeighborsResults.free():
\*     if (this.results !== null) { this.results.delete(); this.results = null; } return;
ResultsFree(field, nat) ==
    IF field # NullHandle
    THEN LET d == NativeDelete(nat[field])
         IN  IF d.outcome = "throw"
             THEN [field |-> field, natives |-> [nat EXCEPT ![field] = d.deletes],
                   outcome |-> "throw"]
             ELSE [field |-> NullHandle,
                   natives |-> [nat EXCEPT ![field] = d.deletes],
                   outcome |-> "return"]
    ELSE [field |-> field, natives |-> nat, outcome |-> "return"]

\* numberOfCells(): return this.index.num_obs();  /  return this.results.num_obs();
\* A TypeError once the field is null.
NumberOfCells(field) == IF field # NullHandle THEN "return" ELSE "throw"

\* new BuildNeighborSearchIndexResults(raw) / new FindNearestNeighborsResults(raw):
\* wrapper w holds the native object w.
FreeInit ==
    /\ PermIdle
    /\ MarkersIdle
    /\ ConcIdle
    /\ \E c \in [1..NumWrappers -> Classes] :
          wrappers = [w \in 1..NumWrappers |-> [class |-> c[w], field |-> w, frees |-> 0]]
    /\ natives = [w \in 1..NumWrappers |-> 0]
    /\ lastCall = [called |-> FALSE]

CallFree(w) ==
    /\ wrappers[w].frees < MaxFrees
    /\ LET r == IF wrappers[w].class = "BuildNeighborSearchIndexResults"
                THEN IndexFree(wrappers[w].field, natives)
                ELSE ResultsFree(wrappers[w].field, natives)
       IN  /\ wrappers' = [wrappers EXCEPT ![w].field = r.field, ![w].frees = @ + 1]
           /\ natives' = r.natives
           /\ lastCall' = [called |-> TRUE, wrapper |-> w, method |-> "free",
                           outcome |-> r.outcome]
    /\ UNCHANGED <<permVars, markerVars, concVars>>

CallNumberOfCells(w) ==
    /\ lastCall' = [called |-> TRUE, wrapper |-> w, method |-> "numberOfCells",
                    outcome |-> NumberOfCells(wrappers[w].field)]
    /\ UNCHANGED <<wrappers, natives, permVars, markerVars, concVars>>

FreeNext ==
    \/ \E w \in 1..NumWrappers : CallFree(w)
    \/ \E w \in 1..NumWrappers : CallNumberOfCells(w)

SpecFree == FreeInit /\ [][FreeNext]_vars

------------------------------------------------------------------------------
\* Vocabulary of the properties

\* a is a bijection over [0, Len(a)).
IsBijection(a) == {a[k] : k \in 1..Len(a)} = 0..(Len(a) - 1)

\* What each function returns for arrays passed directly: the contents of the
\* returned array.
Returned(res) == res.heap[res.ret]
Permuted(P, V) == Returned(permuteVector([layered |-> P, values |-> V], FALSE))
Unpermuted(P, W) == Returned(unpermuteVector([layered |-> P, values |-> W], FALSE))

\* The arguments of the call, and the array it returned.
Layered == pre["layered"]
Values == pre["values"]
Old == pre["old"]
Result == heap[ret]
N == Len(Layered)

\* How many times the call wrote to element k of the array it returned.
WritesTo(k) == Cardinality({j \in 1..Len(writes) : writes[j] = <<ret, k>>})

\* A call of permuteVector / unpermuteVector within its contract.
ValidMapperCall ==
    /\ op \in {"permuteVector", "unpermuteVector"}
    /\ IsBijection(Layered)
    /\ Len(Values) = N

\* A call of updatePermutation on two different bijections over the same [0, n).
ValidReconcilerCall ==
    /\ op = "updatePermutation"
    /\ IsBijection(Layered)
    /\ IsBijection(Old)
    /\ Len(Old) = N
    /\ Old # Layered

------------------------------------------------------------------------------
\* C1: round-trip law. For a bijection P and a vector of the same length, feeding
\* the result of permuteVector to unpermuteVector under the same P gives the
\* vector back element for element, and so does feeding the result of
\* unpermuteVector to permuteVector.
C1_RoundTrip ==
    ValidMapperCall =>
        /\ outcome = "return"
        /\ op = "permuteVector" => Unpermuted(Layered, Result) = Values
        /\ op = "unpermuteVector" => Permuted(Layered, Result) = Values

\* A 3-cycle, which is not its own inverse, applied to three different values.
C1_Witness ==
    /\ op = "permuteVector"
    /\ Layered = <<1, 2, 0>>
    /\ Values = <<10, 20, 30>>
    /\ Result = <<30, 10, 20>>
    /\ Unpermuted(Layered, Result) = <<10, 20, 30>>

\* C2: reconciler composition law as documented. With Q = updatePermutation(newP,
\* oldP) for different bijections, permuteVector(Q, R) equals
\* permuteVector(newP, unpermuteVector(oldP, R)) for every vector R of length n.
C2_CompositionByPermute ==
    ValidReconcilerCall =>
        /\ ret = "output"
        /\ \A R \in [1..N -> Vals] :
               Permuted(Result, R) = Permuted(Layered, Unpermuted(Old, R))

\* C3: permuteVector(P, V) for a bijection P and a vector V of the same length
\* returns W of that length with W[P[i]] = V[i] for every i, each position of W
\* written exactly once; the documented scenario gives [20, 40, 10, 30].
C3_PermuteContract ==
    (ValidMapperCall /\ op = "permuteVector") =>
        /\ outcome = "return"
        /\ Len(Result) = N
        /\ \A i \in 0..(N - 1) : Load(Result, Load(Layered, i)) = Load(Values, i)
        /\ \A k \in 0..(N - 1) : WritesTo(k) = 1
        /\ Len(writes) = N
        /\ (Layered = ScenarioP /\ Values = ScenarioV) => Result = ScenarioW

C3_Witness ==
    /\ op = "permuteVector"
    /\ Layered = ScenarioP
    /\ Values = ScenarioV
    /\ Result = <<20, 40, 10, 30>>
    /\ \A k \in 0..3 : WritesTo(k) = 1

\* C4: unpermuteVector(P, W) for a bijection P and a vector W of the same length
\* returns V of that length with V[i] = W[P[i]] for every i; the documented
\* scenario gives [10, 20, 30, 40].
C4_UnpermuteContract ==
    (ValidMapperCall /\ op = "unpermuteVector") =>
        /\ outcome = "return"
        /\ Len(Result) = N
        /\ \A i \in 0..(N - 1) : Load(Result, i) = Load(Values, Load(Layered, i))
        /\ (Layered = ScenarioP /\ Values = ScenarioW) => Result = ScenarioV

C4_Witness ==
    /\ op = "unpermuteVector"
    /\ Layered = ScenarioP
    /\ Values = ScenarioW
    /\ Result = <<10, 20, 30, 40>>

\* C5: for arrays of equal length, updatePermutation returns null exactly when
\* the two arrays agree at every index, and an array otherwise.
C5_NullIffIdentical ==
    (op = "updatePermutation" /\ Len(Old) = N) =>
        /\ outcome = "return"
        /\ ret = "null" <=> (\A i \in 0..(N - 1) : Load(Layered, i) = Load(Old, i))
        /\ ret # "null" => (ret = "output" /\ ret \in DOMAIN heap)

\* Two permutations that agree on their first entry and differ later.
C5_Witness ==
    /\ op = "updatePermutation"
    /\ Layered = <<0, 2, 1>>
    /\ Old = <<0, 1, 2>>
    /\ ret = "output"

C7_MapperLengthMismatchThrows ==
    (op \in {"permuteVector", "unpermuteVector"} /\ Len(Values) # N) =>
        outcome = "throw"

\* C8: updatePermutation throws whenever old and the new permutation differ in
\* length, before it requests the matrix's permutation, compares an element or
\* allocates the output: nothing is returned and no array is created.
C8_ReconcilerLengthMismatch ==
    (op = "updatePermutation" /\ Len(Old) # N) =>
        /\ outcome = "throw"
        /\ error = (IF isMatrix THEN RowsMismatch ELSE LengthMismatch)
        /\ ret = "none"
        /\ DOMAIN heap = DOMAIN pre
        /\ \A j \in 1..Len(calls) : calls[j].method # "permutation"
        /\ writes = <<>>

C8_Witness ==
    /\ op = "updatePermutation"
    /\ isMatrix
    /\ Layered = <<1, 0, 2>>
    /\ Old = <<1, 0>>
    /\ outcome = "throw"
    /\ calls = <<NumberOfRowsCall>>

\* C9: no call changes an array it was given, and the array a call returns is a
\* container none of its arguments is: every write of the call goes to it.
C9_InputsUntouched ==
    op # "init" =>
        /\ \A r \in DOMAIN pre : r \in DOMAIN heap /\ heap[r] = pre[r]
        /\ ret \notin DOMAIN pre
        /\ \A j \in 1..Len(writes) : writes[j][1] = ret /\ writes[j][1] \notin DOMAIN pre

\* A call that moved elements: the result differs from the values passed.
C9_Witness ==
    /\ op = "permuteVector"
    /\ Layered = <<2, 0, 1>>
    /\ Values = <<10, 20, 30>>
    /\ heap["values"] = <<10, 20, 30>>
    /\ heap["layered"] = <<2, 0, 1>>
    /\ Result = <<20, 30, 10>>
    /\ Len(writes) = 3

\* What a call leaves behind for its caller: how it ended and what it returned.
Observed(res) ==
    [outcome |-> res.outcome, error |-> res.error,
     value |-> IF res.ret \in DOMAIN res.heap THEN res.heap[res.ret] ELSE <<>>,
     isNull |-> res.ret = "null"]

\* The same call with the matrix's permutation passed as a plain array.
Direct ==
    CASE op = "permuteVector" -> permuteVector(pre, FALSE)
      [] op = "unpermuteVector" -> unpermuteVector(pre, FALSE)
      [] op = "updatePermutation" -> updatePermutation(pre, FALSE)

\* C10: given a LayeredSparseMatrix, each function requests the permutation with
\* copy = false only, writes nothing to the view it gets, and returns what it
\* returns for that permutation passed as an array; updatePermutation requests the
\* view once for the comparison and once more for the output.
C10_MatrixAsArray ==
    (op # "init" /\ isMatrix) =>
        /\ \A j \in 1..Len(calls) :
               calls[j].method = "permutation" => calls[j].copy = FALSE
        /\ \A j \in 1..Len(writes) : writes[j][1] # "layered"
        /\ heap["layered"] = pre["layered"]
        /\ DOMAIN heap \subseteq {"layered", "values", "old", "copy", "output"}
        /\ LET d == Direct
           IN  /\ d.outcome = outcome
               /\ d.ret = ret
               /\ (ret \in DOMAIN heap) => d.heap[d.ret] = Result
        /\ op \in {"permuteVector", "unpermuteVector"} =>
               calls = <<[method |-> "permutation", copy |-> FALSE]>>
        /\ (op = "updatePermutation" /\ ret = "output") =>
               calls = <<NumberOfRowsCall,
                         [method |-> "permutation", copy |-> FALSE],
                         [method |-> "permutation", copy |-> FALSE]>>

C10_Witness ==
    /\ op = "updatePermutation"
    /\ isMatrix
    /\ Layered = <<1, 2, 0>>
    /\ Old = <<0, 1, 2>>
    /\ Result = <<2, 0, 1>>
    /\ Len(calls) = 3

------------------------------------------------------------------------------
\* a is the identity over [0, Len(a)).
IsIdentity(a) == \A i \in 0..(Len(a) - 1) : Load(a, i) = i

\* a is its own inverse.
IsInvolution(a) == \A i \in 0..(Len(a) - 1) : Load(a, Load(a, i)) = i

\* C12: under the identity permutation permuteVector and unpermuteVector return
\* the vector they were given, element for element.
C12_IdentityIsNoOp ==
    (ValidMapperCall /\ IsIdentity(Layered)) =>
        /\ outcome = "return"
        /\ Result = Values

C12_Witness ==
    /\ op = "unpermuteVector"
    /\ Layered = <<0, 1, 2>>
    /\ Values = <<30, 10, 20>>
    /\ Result = <<30, 10, 20>>
    /\ Len(writes) = 3

\* An array handed in as a permutation that is no bijection over [0, n).
MalformedPermutationGiven ==
    \/ op = "updatePermutation" /\ ~IsBijection(Old)
    \/ op # "init" /\ ~isMatrix /\ ~IsBijection(Layered)

\* C13: a call given an array that is no bijection (as `old`, or as a raw
\* `layered`) is rejected with an error; no array (and no null) is returned.
C13_MalformedPermutationRejected ==
    MalformedPermutationGiven =>
        /\ outcome = "throw"
        /\ ret = "none"

Reverse == Returned(updatePermutation([layered |-> Old, old |-> Layered], FALSE))

------------------------------------------------------------------------------
\* C17: score_markers configures the engine so that the median summary is
\* computed exactly when compute_med is set and the maximum summary exactly when
\* compute_max is set; the result holds them accordingly.
C17_FlagsReachOwnSetters ==
    smEngine.configured =>
        /\ smEngine.summary_median = smArgs.compute_med
        /\ smEngine.summary_max = smArgs.compute_max
        /\ smStore.summaries["cohen"]["MEDIAN"] = smArgs.compute_med
        /\ smStore.summaries["cohen"]["MAX"] = smArgs.compute_max

------------------------------------------------------------------------------
\* C16: whatever free() calls are made of a wrapper, its native object receives
\* delete() at most once, by the first free(); from then on the handle field is
\* null and free() does nothing and raises no error.
C16_FreeIsIdempotent ==
    \A w \in DOMAIN wrappers :
        /\ natives[w] <= 1
        /\ wrappers[w].frees = 0 => (wrappers[w].field = w /\ natives[w] = 0)
        /\ wrappers[w].frees >= 1 => (wrappers[w].field = NullHandle /\ natives[w] = 1)
        /\ (lastCall.called /\ lastCall.method = "free") => lastCall.outcome = "return"

\* An index wrapper freed more than once, the other wrapper still alive.
C16_Witness ==
    /\ lastCall.called
    /\ lastCall.method = "free"
    /\ lastCall.wrapper = 1
    /\ wrappers[1].class = "BuildNeighborSearchIndexResults"
    /\ wrappers[1].frees >= 2
    /\ wrappers[1].field = NullHandle
    /\ natives[1] = 1
    /\ wrappers[2].field = 2

------------------------------------------------------------------------------
\* What the call's function returns for the same arrays when it runs alone.
Alone(fn) ==
    CASE fn = "permuteVector" -> permuteVector(inputs, FALSE)
      [] fn = "unpermuteVector" -> unpermuteVector(inputs, FALSE)
      [] fn = "updatePermutation" -> updatePermutation(inputs, FALSE)

\* C11: calls that read the same arrays, their per-element steps interleaved in
\* any order, each return what the call returns when run alone; no call writes
\* to an array another call reads or writes, and the arrays given stay as they were.
C11_InterleavedCallsAgree ==
    /\ \A id \in DOMAIN inv :
          inv[id].phase = "done" =>
              LET a == Alone(inv[id].fn)
              IN  /\ inv[id].outcome = a.outcome
                  /\ (a.ret = "null") <=> (inv[id].out = "null")
                  /\ (a.ret = "none") <=> (inv[id].out = "none")
                  /\ a.ret \in DOMAIN a.heap =>
                         /\ inv[id].out \in DOMAIN shared
                         /\ shared[inv[id].out] = a.heap[a.ret]
    /\ \A w \in accesses.writes :
          \A other \in DOMAIN inv :
              other # w[1] =>
                  /\ <<other, w[2]>> \notin accesses.reads
                  /\ <<other, w[2]>> \notin accesses.writes
    /\ \A r \in DOMAIN inputs : shared[r] = inputs[r]

\* permuteVector and updatePermutation, interleaved, both returned.
C11_Witness ==
    /\ interleaved
    /\ inputs["layered"] = <<1, 0>>
    /\ inputs["old"] = <<0, 1>>
    /\ inv[1].fn = "permuteVector"
    /\ inv[1].phase = "done"
    /\ shared[inv[1].out] = <<20, 10>>
    /\ inv[2].fn = "updatePermutation"
    /\ inv[2].phase = "done"
    /\ shared[inv[2].out] = <<1, 0>>
    /\ accesses.writes = {<<1, "copy1">>, <<2, "copy2">>}

====
